---------------------------- MODULE Spec2Model ----------------------------
(***************************************************************************)
(* SkillSwap backend (src/main.py, src/schemas.py): the document store     *)
(* (user, session, rating, chat, message collections) and the request      *)
(* handlers that change it.  rate_session is modelled one store call per   *)
(* step, so that requests served by different worker threads interleave    *)
(* between store calls; the other handlers are single steps.               *)
(*                                                                         *)
(* Identifiers are strings in the code and integers here:                  *)
(*   EmptyId   the empty string (falsy, and no ObjectId)                   *)
(*   BadId     a non-empty string that ObjectId() rejects                  *)
(*   AbsentId  a well-formed ObjectId that names no document               *)
(*   1, 2, ..  the ObjectIds the store has assigned, per collection        *)
(* A request can name only identifiers the store has already handed out    *)
(* (or one of the three above): ObjectIds are unique, a document is never  *)
(* created under an identifier that was referenced before it existed.      *)
(* Timestamps (created_at, updated_at) and the inert request fields        *)
(* (rater_id, feedback, chat_id and links of a session, message text) are  *)
(* left out.  rating_avg is an IEEE-754 double, as in Python and BSON.     *)
(***************************************************************************)
EXTENDS Integers, Sequences, FiniteSets, Bags, TLC

VARIABLES
    users,      \* db["user"]: _id -> document
    sessions,   \* db["session"]: _id -> document (a sequence, _id = index)
    ratings,    \* db["rating"]: bag of documents
    chats,      \* db["chat"]: _id -> members (a sequence, _id = index)
    messages,   \* db["message"]: bag of chat_id values
    pc,         \* per worker: position inside rate_session
    req,        \* per worker: the RatingRequest being served
    sdoc,       \* per worker: session_doc, as read at line 315
    u,          \* per worker: the ratee document, as read at line 330
    t,          \* per worker: the teacher document, as read at line 348
    resp,       \* per worker: HTTP status of the finished request
    pre,        \* history: the store when the request in flight started
    overlap,    \* history: per worker, whether its request overlapped another
    writes,     \* history: per user, number of rating-statistics writes
    settled     \* history: per session, number of requests that returned 200

store == <<users, sessions, ratings, chats, messages>>
locals == <<pc, req, sdoc, u, t, resp>>
vars == <<users, sessions, ratings, chats, messages, pc, req, sdoc, u, t, resp,
          pre, overlap, writes, settled>>

---------------------------------------------------------------------------
(* Bounds of the model *)
MaxUsers == 2
MaxSessions == 1
MaxRatings == 2
MaxLongRatings == 11
MaxConcRatings == 3
MaxChats == 1
MaxMessages == 1
NProcs == 2

(* Program constants *)
InitialCoins == 20
CoinDelta == 10
TopMentorMin == 10
SkillStreakMin == 5
MinScore == 1
MaxScore == 5

EmptyId == 0
BadId == -1
AbsentId == 1000

Procs == 1..NProcs

---------------------------------------------------------------------------
(* IEEE-754 binary64 restricted to 0.0 and the positive normal values the *)
(* rating average takes: x = (hi * 2^26 + lo) * 2^e with a 53-bit         *)
(* mantissa, 2^26 <= hi < 2^27 and 0 <= lo < 2^26.                         *)
W == 2^26

Zero == [hi |-> 0, lo |-> 0, e |-> 0]

IsZero(x) == x.hi = 0

(* Round (m * 2^26 + l + g/2 + s) * 2^e, m >= 2^26, to nearest, ties to   *)
(* even; g is the first dropped bit, s tells whether a 1 lies below it.   *)
RECURSIVE RoundNearestEven(_, _, _, _, _)
RoundNearestEven(m, l, e, g, s) ==
    IF m >= 2 * W
    THEN RoundNearestEven(m \div 2, (m % 2) * (W \div 2) + l \div 2, e + 1,
                          l % 2, s \/ g = 1)
    ELSE IF g = 1 /\ (s \/ l % 2 = 1)
         THEN IF l + 1 < W THEN [hi |-> m, lo |-> l + 1, e |-> e]
              ELSE IF m + 1 < 2 * W THEN [hi |-> m + 1, lo |-> 0, e |-> e]
              ELSE [hi |-> W, lo |-> 0, e |-> e + 1]
         ELSE [hi |-> m, lo |-> l, e |-> e]

(* float(k) for a small non-negative integer k: exact *)
FromInt(k) ==
    IF k = 0 THEN Zero
    ELSE LET j == CHOOSE i \in 0..26 : W <= k * 2^i /\ k * 2^i < 2 * W
         IN [hi |-> k * 2^j, lo |-> 0, e |-> 0 - 26 - j]

(* x * k for a double x and an integer 0 <= k <= 15 *)
FMulInt(x, k) ==
    IF IsZero(x) \/ k = 0 THEN Zero
    ELSE LET lk == x.lo * k
         IN RoundNearestEven(x.hi * k + lk \div W, lk % W, x.e, 0, FALSE)

(* x + k for a double x in {0} \cup [1, 2^26) and an integer 0 <= k <= 15 *)
FAddInt(x, k) ==
    IF IsZero(x) THEN FromInt(k)
    ELSE RoundNearestEven(x.hi + k * 2^(0 - x.e - 26), x.lo, x.e, 0, FALSE)

(* x / k for a double x and an integer 1 <= k <= 15 *)
FDivInt(x, k) ==
    IF IsZero(x) \/ k = 1 THEN x
    ELSE LET q1 == x.hi \div k
             v2 == (x.hi % k) * W + x.lo
             q2 == v2 \div k
             v3 == (v2 % k) * 32
             q3 == v3 \div k
         IN RoundNearestEven(q1 * 32 + q2 \div (W \div 32),
                             (q2 % (W \div 32)) * 32 + q3,
                             x.e - 5, 0, v3 % k # 0)

(* x > 4.5, where 4.5 = (9 * 2^23) * 2^26 * 2^-50 *)
FGtFourAndHalf(x) ==
    /\ ~IsZero(x)
    /\ \/ x.e > -50
       \/ x.e = -50 /\ (x.hi > 9 * 2^23 \/ (x.hi = 9 * 2^23 /\ x.lo > 0))

---------------------------------------------------------------------------
(* Helpers of the handlers *)

(* oid(): ObjectId(id_str) succeeds; otherwise HTTP 400 *)
oid(id) == id >= 1

(* Python truthiness of an identifier string *)
Truthy(id) == id # EmptyId

(* find_one({"_id": ...}) finds a document *)
UserExists(id) == id \in DOMAIN users
SessionExists(id) == id \in DOMAIN sessions

(* a validation that forgets the upper limit of the score *)
ValidScoreNoUpper(score) == MinScore <= score

ValidScore(score) == MinScore <= score /\ score <= MaxScore

(* The User document register() inserts *)
NewUser == [name |-> "", coins |-> InitialCoins, rating_avg |-> Zero,
            rating_count |-> 0, badges |-> {},
            teaching_sessions |-> 0, learning_sessions |-> 0]

(* The Session document schedule_session() inserts *)
NewSession(teacher_id, learner_id) ==
    [teacher_id |-> teacher_id, learner_id |-> learner_id, status |-> "scheduled"]

(* The Rating document rate_session() inserts *)
NewRating(r) == [session_id |-> r.session_id, ratee_id |-> r.ratee_id, score |-> r.score]

(* a running mean that weighs the old average with the new count *)
NewAvgNewCount(avg, count, score) == FDivInt(FAddInt(FMulInt(avg, count), score), count)

(* new_avg = ((avg * (count - 1)) + req.score) / count *)
NewAvg(avg, count, score) == FDivInt(FAddInt(FMulInt(avg, count - 1), score), count)

(* a learner charge that stops at a balance of zero *)
IncLearnerDocFloored(d) ==
    [d EXCEPT !.coins = IF @ >= CoinDelta THEN @ - CoinDelta ELSE 0,
              !.learning_sessions = @ + 1]

(* $inc of coins and of a session counter *)
IncTeacherDoc(d) == [d EXCEPT !.coins = @ + CoinDelta, !.teaching_sessions = @ + 1]
IncLearnerDoc(d) == [d EXCEPT !.coins = @ - CoinDelta, !.learning_sessions = @ + 1]

(* a settlement that marks the session cancelled *)
CancelledStatus == "cancelled"

(* The status rate_session() sets *)
CompletedStatus == "completed"

(* The badge set rate_session() computes from the teacher document d *)
(* a Top Mentor threshold that is strict *)
TopMentorStrict(d) == d.teaching_sessions > TopMentorMin

TopMentor(d) == d.teaching_sessions >= TopMentorMin
SkillStreak(d) == d.learning_sessions + d.teaching_sessions >= SkillStreakMin
HelpfulTeacher(d) == FGtFourAndHalf(d.rating_avg)

Earned(d) ==
    (IF TopMentor(d) THEN {"Top Mentor"} ELSE {})
    \cup (IF SkillStreak(d) THEN {"Skill Streak"} ELSE {})
    \cup (IF HelpfulTeacher(d) THEN {"Helpful Teacher"} ELSE {})

(* a badge set recomputed from the thresholds alone *)
BadgeSetEarnedOnly(d) == Earned(d)

BadgeSet(d) == d.badges \cup Earned(d)

(* Values of the request-local variables outside a request *)
NoReq == [session_id |-> EmptyId, ratee_id |-> EmptyId, score |-> 0]
NoSession == [teacher_id |-> EmptyId, learner_id |-> EmptyId]
NoRatee == [found |-> FALSE, rating_avg |-> Zero, rating_count |-> 0, ver |-> 0]
NoTeacher == [found |-> FALSE, id |-> EmptyId, badges |-> {}, rating_avg |-> Zero,
              teaching_sessions |-> 0, learning_sessions |-> 0]
NoPre == [users |-> <<>>, sessions |-> <<>>, ratings |-> EmptyBag]

Store == [users |-> users, sessions |-> sessions, ratings |-> ratings]

InFlight(p) == pc[p] \notin {"idle", "done"}
Quiet == \A p \in Procs : pc[p] = "idle"

(* The request of worker p ends with HTTP status code *)
Finish(p, code) ==
    /\ pc' = [pc EXCEPT ![p] = "done"]
    /\ resp' = [resp EXCEPT ![p] = code]
    /\ settled' = IF code = 200 /\ SessionExists(req[p].session_id)
                  THEN [settled EXCEPT ![req[p].session_id] = @ + 1]
                  ELSE settled

Goto(p, label) ==
    /\ pc' = [pc EXCEPT ![p] = label]
    /\ UNCHANGED <<resp, settled>>

---------------------------------------------------------------------------
Init ==
    /\ users = <<>>
    /\ sessions = <<>>
    /\ ratings = EmptyBag
    /\ chats = <<>>
    /\ messages = EmptyBag
    /\ pc = [p \in Procs |-> "idle"]
    /\ req = [p \in Procs |-> NoReq]
    /\ sdoc = [p \in Procs |-> NoSession]
    /\ u = [p \in Procs |-> NoRatee]
    /\ t = [p \in Procs |-> NoTeacher]
    /\ resp = [p \in Procs |-> 0]
    /\ pre = NoPre
    /\ overlap = [p \in Procs |-> FALSE]
    /\ writes = <<>>
    /\ settled = <<>>

---------------------------------------------------------------------------
(* POST /auth/register.  Emails are named in the order of their first     *)
(* registration: email n + 1 is new, an email up to n is taken (409).     *)
Register(email) ==
    /\ email <= Len(users) + 1
    /\ IF email <= Len(users)
       THEN UNCHANGED <<users, writes>>
       ELSE /\ users' = Append(users, NewUser)
            /\ writes' = Append(writes, 0)
    /\ UNCHANGED <<sessions, ratings, chats, messages, locals, overlap, settled>>

(* PUT /profile/{user_id} *)
UpdateProfile(user_id, name) ==
    /\ IF oid(user_id) /\ UserExists(user_id)
       THEN users' = [users EXCEPT ![user_id].name = name]
       ELSE UNCHANGED users
    /\ UNCHANGED <<sessions, ratings, chats, messages, locals, overlap, writes, settled>>

(* POST /chat/ensure *)
EnsureChat(user_a, user_b) ==
    LET members_sorted == IF user_a <= user_b THEN <<user_a, user_b>> ELSE <<user_b, user_a>>
    IN /\ IF \E c \in DOMAIN chats : chats[c] = members_sorted
          THEN UNCHANGED chats
          ELSE /\ Len(chats) < MaxChats
               /\ chats' = Append(chats, members_sorted)
       /\ UNCHANGED <<users, sessions, ratings, messages, locals, overlap, writes, settled>>

(* POST /chat/send: the message is inserted before oid(chat_id) is tried *)
SendMessage(chat_id) ==
    /\ BagCardinality(messages) < MaxMessages
    /\ messages' = messages (+) SetToBag({chat_id})
    /\ UNCHANGED <<users, sessions, ratings, chats, locals, overlap, writes, settled>>

(* POST /sessions/schedule *)
ScheduleSession(teacher_id, learner_id, duration) ==
    /\ Len(sessions) < MaxSessions
    /\ IF duration \notin {30, 60}
       THEN UNCHANGED <<sessions, settled>>
       ELSE /\ sessions' = Append(sessions, NewSession(teacher_id, learner_id))
            /\ settled' = Append(settled, 0)
    /\ UNCHANGED <<users, ratings, chats, messages, locals, overlap, writes>>

---------------------------------------------------------------------------
(* POST /sessions/rate, lines 310-317: the score check, oid(session_id)   *)
(* and the session lookup                                                 *)
RateStart(p, session_id, ratee_id, score) ==
    /\ pc[p] = "idle"
    /\ req' = [req EXCEPT ![p] = [session_id |-> session_id, ratee_id |-> ratee_id,
                                  score |-> score]]
    /\ overlap' = [q \in Procs |->
                     IF q = p THEN \E o \in Procs \ {p} : InFlight(o)
                     ELSE overlap[q] \/ InFlight(q)]
    /\ IF ~ValidScore(score) THEN
            /\ pc' = [pc EXCEPT ![p] = "done"]
            /\ resp' = [resp EXCEPT ![p] = 400]
            /\ UNCHANGED sdoc
       ELSE IF ~oid(session_id) THEN
            /\ pc' = [pc EXCEPT ![p] = "done"]
            /\ resp' = [resp EXCEPT ![p] = 400]
            /\ UNCHANGED sdoc
       ELSE IF ~SessionExists(session_id) THEN
            /\ pc' = [pc EXCEPT ![p] = "done"]
            /\ resp' = [resp EXCEPT ![p] = 404]
            /\ UNCHANGED sdoc
       ELSE /\ pc' = [pc EXCEPT ![p] = "insert_rating"]
            /\ sdoc' = [sdoc EXCEPT ![p] = [teacher_id |-> sessions[session_id].teacher_id,
                                            learner_id |-> sessions[session_id].learner_id]]
            /\ UNCHANGED resp
    /\ UNCHANGED <<store, u, t, writes, settled>>

(* the position after the ratee update: line 340 *)
AfterRatee(p) ==
    IF Truthy(sdoc[p].teacher_id) /\ Truthy(sdoc[p].learner_id)
    THEN "inc_teacher" ELSE "mark_completed"

(* lines 319-327 *)
InsertRating(p) ==
    /\ pc[p] = "insert_rating"
    /\ ratings' = ratings (+) SetToBag({NewRating(req[p])})
    /\ Goto(p, "find_ratee")
    /\ UNCHANGED <<users, sessions, chats, messages, req, sdoc, u, t, overlap, writes>>

(* line 330 *)
FindRatee(p) ==
    /\ pc[p] = "find_ratee"
    /\ IF ~oid(req[p].ratee_id) THEN
            /\ Finish(p, 400)
            /\ UNCHANGED u
       ELSE IF UserExists(req[p].ratee_id) THEN
            /\ u' = [u EXCEPT ![p] = [found |-> TRUE,
                                      rating_avg |-> users[req[p].ratee_id].rating_avg,
                                      rating_count |-> users[req[p].ratee_id].rating_count,
                                      ver |-> writes[req[p].ratee_id]]]
            /\ Goto(p, "set_ratee")
       ELSE /\ UNCHANGED u
            /\ Goto(p, AfterRatee(p))
    /\ UNCHANGED <<store, req, sdoc, t, overlap, writes>>

(* a ratee update that leaves rating_count alone *)
RateeUpdateAvgOnly(d, snap, score) ==
    [d EXCEPT !.rating_avg = NewAvg(snap.rating_avg, snap.rating_count + 1, score)]

(* a ratee update computed from the stored document, not from the snapshot *)
RateeUpdateInPlace(d, snap, score) ==
    [d EXCEPT !.rating_avg = NewAvg(d.rating_avg, d.rating_count + 1, score),
              !.rating_count = d.rating_count + 1]

(* lines 332-335 *)
RateeUpdate(d, snap, score) ==
    LET count == snap.rating_count + 1
    IN [d EXCEPT !.rating_avg = NewAvg(snap.rating_avg, count, score),
                 !.rating_count = count]

SetRatee(p) ==
    /\ pc[p] = "set_ratee"
    /\ users' = [users EXCEPT ![req[p].ratee_id] = RateeUpdate(@, u[p], req[p].score)]
    /\ writes' = [writes EXCEPT ![req[p].ratee_id] = @ + 1]
    /\ Goto(p, AfterRatee(p))
    /\ UNCHANGED <<sessions, ratings, chats, messages, req, sdoc, u, t, overlap>>

(* line 341 *)
IncTeacher(p) ==
    /\ pc[p] = "inc_teacher"
    /\ IF ~oid(sdoc[p].teacher_id) THEN
            /\ Finish(p, 400)
            /\ UNCHANGED users
       ELSE /\ users' = IF UserExists(sdoc[p].teacher_id)
                        THEN [users EXCEPT ![sdoc[p].teacher_id] = IncTeacherDoc(@)]
                        ELSE users
            /\ Goto(p, "inc_learner")
    /\ UNCHANGED <<sessions, ratings, chats, messages, req, sdoc, u, t, overlap, writes>>

(* a learner charge that answers 404 when the learner has no document *)
IncLearnerOrNotFound(p) ==
    /\ pc[p] = "inc_learner"
    /\ IF ~oid(sdoc[p].learner_id) THEN
            /\ Finish(p, 400)
            /\ UNCHANGED users
       ELSE IF ~UserExists(sdoc[p].learner_id) THEN
            /\ Finish(p, 404)
            /\ UNCHANGED users
       ELSE /\ users' = [users EXCEPT ![sdoc[p].learner_id] = IncLearnerDoc(@)]
            /\ Goto(p, "mark_completed")
    /\ UNCHANGED <<sessions, ratings, chats, messages, req, sdoc, u, t, overlap, writes>>

(* line 342 *)
IncLearner(p) ==
    /\ pc[p] = "inc_learner"
    /\ IF ~oid(sdoc[p].learner_id) THEN
            /\ Finish(p, 400)
            /\ UNCHANGED users
       ELSE /\ users' = IF UserExists(sdoc[p].learner_id)
                        THEN [users EXCEPT ![sdoc[p].learner_id] = IncLearnerDoc(@)]
                        ELSE users
            /\ Goto(p, "mark_completed")
    /\ UNCHANGED <<sessions, ratings, chats, messages, req, sdoc, u, t, overlap, writes>>

(* line 345 *)
MarkCompleted(p) ==
    /\ pc[p] = "mark_completed"
    /\ sessions' = [sessions EXCEPT ![req[p].session_id].status = CompletedStatus]
    /\ Goto(p, "find_teacher")
    /\ UNCHANGED <<users, ratings, chats, messages, req, sdoc, u, t, overlap, writes>>

(* lines 348-349 *)
FindTeacher(p) ==
    /\ pc[p] = "find_teacher"
    /\ IF ~Truthy(sdoc[p].teacher_id) THEN
            /\ Finish(p, 200)
            /\ UNCHANGED t
       ELSE IF ~oid(sdoc[p].teacher_id) THEN
            /\ Finish(p, 400)
            /\ UNCHANGED t
       ELSE IF UserExists(sdoc[p].teacher_id) THEN
            /\ t' = [t EXCEPT ![p] =
                       [found |-> TRUE, id |-> sdoc[p].teacher_id,
                        badges |-> users[sdoc[p].teacher_id].badges,
                        rating_avg |-> users[sdoc[p].teacher_id].rating_avg,
                        teaching_sessions |-> users[sdoc[p].teacher_id].teaching_sessions,
                        learning_sessions |-> users[sdoc[p].teacher_id].learning_sessions]]
            /\ Goto(p, "set_badges")
       ELSE /\ Finish(p, 200)
            /\ UNCHANGED t
    /\ UNCHANGED <<store, req, sdoc, u, overlap, writes>>

(* lines 350-359 *)
SetBadges(p) ==
    /\ pc[p] = "set_badges"
    /\ users' = [users EXCEPT ![t[p].id].badges = BadgeSet(t[p])]
    /\ Finish(p, 200)
    /\ UNCHANGED <<sessions, ratings, chats, messages, req, sdoc, u, t, overlap, writes>>

(* the response has been delivered; the worker is free again *)
Return(p) ==
    /\ pc[p] = "done"
    /\ pc' = [pc EXCEPT ![p] = "idle"]
    /\ req' = [req EXCEPT ![p] = NoReq]
    /\ sdoc' = [sdoc EXCEPT ![p] = NoSession]
    /\ u' = [u EXCEPT ![p] = NoRatee]
    /\ t' = [t EXCEPT ![p] = NoTeacher]
    /\ resp' = [resp EXCEPT ![p] = 0]
    /\ overlap' = [overlap EXCEPT ![p] = FALSE]
    /\ UNCHANGED <<store, writes, settled>>

RateStep(p) ==
    \/ InsertRating(p)
    \/ FindRatee(p)
    \/ SetRatee(p)
    \/ IncTeacher(p)
    \/ IncLearner(p)
    \/ MarkCompleted(p)
    \/ FindTeacher(p)
    \/ SetBadges(p)

---------------------------------------------------------------------------
(* Inputs of the requests *)
UserIdInputs == DOMAIN users \cup {AbsentId, BadId, EmptyId}
SessionIdInputs == DOMAIN sessions \cup {AbsentId, BadId}
ChatIdInputs == DOMAIN chats \cup {BadId}
ScoreInputs == {0, 4, 5, 6}
DurationInputs == {30, 45}
NameInputs == {"n"}

(* Spec: the whole API, one request at a time *)
Next ==
    \/ /\ Quiet
       /\ UNCHANGED pre
       /\ \/ \E email \in 1..MaxUsers : Register(email)
          \/ \E user_id \in UserIdInputs, name \in NameInputs : UpdateProfile(user_id, name)
          \/ \E a \in DOMAIN users, b \in DOMAIN users : EnsureChat(a, b)
          \/ \E c \in ChatIdInputs : SendMessage(c)
          \/ \E tid \in UserIdInputs, lid \in UserIdInputs, d \in DurationInputs :
                ScheduleSession(tid, lid, d)
    \/ /\ BagCardinality(ratings) < MaxRatings
       /\ \E sid \in SessionIdInputs, rid \in UserIdInputs, s \in ScoreInputs :
             RateStart(1, sid, rid, s)
       /\ pre' = Store
    \/ RateStep(1) /\ UNCHANGED pre
    \/ Return(1) /\ pre' = NoPre

Spec == Init /\ [][Next]_vars

(* SpecLong: many ratings of the first user, one request at a time *)
LongScores == 1..5

NextLong ==
    \/ /\ Quiet
       /\ UNCHANGED pre
       /\ \/ \E email \in 1..MaxUsers : Register(email)
          \/ \E lid \in DOMAIN users \cup {EmptyId} : 1 \in DOMAIN users /\ ScheduleSession(1, lid, 30)
    \/ /\ BagCardinality(ratings) < MaxLongRatings
       /\ \E sid \in DOMAIN sessions, s \in LongScores : RateStart(1, sid, 1, s)
       /\ pre' = Store
    \/ RateStep(1) /\ UNCHANGED pre
    \/ Return(1) /\ pre' = NoPre

SpecLong == Init /\ [][NextLong]_vars

(* SpecConc: requests served concurrently by the workers *)
ConcScores == {4, 5}

NextConc ==
    \/ /\ UNCHANGED pre
       /\ \/ \E email \in 1..MaxUsers : Register(email)
          \/ \E tid \in DOMAIN users, lid \in DOMAIN users \cup {BadId} : ScheduleSession(tid, lid, 30)
    \/ \E p \in Procs :
          \/ /\ BagCardinality(ratings) < MaxConcRatings
             /\ \E sid \in DOMAIN sessions, rid \in DOMAIN users, s \in ConcScores :
                   RateStart(p, sid, rid, s)
             /\ UNCHANGED pre
          \/ RateStep(p) /\ UNCHANGED pre
          \/ Return(p) /\ UNCHANGED pre

SpecConc == Init /\ [][NextConc]_vars

---------------------------------------------------------------------------
(* Quantities the properties below are stated in *)

RECURSIVE SumFn(_)
SumFn(f) ==
    IF DOMAIN f = {} THEN 0
    ELSE LET x == CHOOSE y \in DOMAIN f : TRUE
         IN f[x] + SumFn([y \in DOMAIN f \ {x} |-> f[y]])

(* the Rating documents whose ratee_id is id: their number, their scores' sum *)
RatingsOf(id) == {r \in BagToSet(ratings) : r.ratee_id = id}
CountRatings(id) == SumFn([r \in RatingsOf(id) |-> CopiesIn(r, ratings)])
ScoreSum(id) == SumFn([r \in RatingsOf(id) |-> r.score * CopiesIn(r, ratings)])

(* requests that returned 200 on the sessions that charge coins to/from id *)
TeachK(id) ==
    SumFn([s \in {x \in DOMAIN sessions : sessions[x].teacher_id = id
                                          /\ Truthy(sessions[x].learner_id)}
           |-> settled[s]])
LearnK(id) ==
    SumFn([s \in {x \in DOMAIN sessions : sessions[x].learner_id = id
                                          /\ Truthy(sessions[x].teacher_id)}
           |-> settled[s]])

(* the request of worker p has returned *)
Done(p) == pc[p] = "done"
Ok(p) == pc[p] = "done" /\ resp[p] = 200

(* the session the finished request of worker 1 referenced, as it was when *)
(* the request started                                                     *)
PreSession == pre.sessions[req[1].session_id]
ReferencesSession == req[1].session_id \in DOMAIN pre.sessions

(* the badge labels whose threshold holds on the document d *)
Qualifying(d) ==
    {b \in {"Top Mentor", "Skill Streak", "Helpful Teacher"} :
        \/ b = "Top Mentor" /\ d.teaching_sessions >= 10
        \/ b = "Skill Streak" /\ d.teaching_sessions + d.learning_sessions >= 5
        \/ b = "Helpful Teacher" /\ FGtFourAndHalf(d.rating_avg)}

(* (avg * count + s) / (count + 1) in double precision *)
RunningMean(avg, count, s) == FDivInt(FAddInt(FMulInt(avg, count), s), count + 1)

---------------------------------------------------------------------------
(* C1: a rate_session request in which the session id, the ratee id or the *)
(* teacher/learner id stored on the referenced session is malformed fails  *)
(* with 400, and it fails before any store write: the rating collection,   *)
(* the user documents and the sessions are as they were when the request   *)
(* started.                                                                *)
C1_Malformed ==
    \/ ~oid(req[1].session_id)
    \/ /\ ReferencesSession
       /\ \/ ~oid(req[1].ratee_id)
          \/ ~oid(PreSession.teacher_id)
          \/ ~oid(PreSession.learner_id)

C1_MalformedIdRejectedBeforeAnyWrite ==
    Done(1) /\ C1_Malformed => resp[1] = 400 /\ Store = pre

---------------------------------------------------------------------------
(* C2: a request rejected at validation leaves the store unchanged. The    *)
(* handler validates in order: every request with a score outside 1..5     *)
(* fails with 400; every request that passed the score check and carries a *)
(* well-formed session id matching no session fails with 404; in both      *)
(* cases the rating collection, the user documents and the session         *)
(* documents are as they were when the request started.                    *)
C2_RejectedAtValidation ==
    Done(1) =>
        /\ req[1].score \notin 1..5 => resp[1] = 400 /\ Store = pre
        /\ req[1].score \in 1..5 /\ oid(req[1].session_id) /\ ~ReferencesSession
              => resp[1] = 404 /\ Store = pre

(* a request for a missing session was answered 404 on a store that holds  *)
(* users, a session and a rating                                           *)
C2_Witness ==
    /\ Done(1) /\ resp[1] = 404 /\ req[1].score \in 1..5
    /\ users # <<>> /\ sessions # <<>> /\ ratings # EmptyBag

---------------------------------------------------------------------------
(* C3 as stated: after a successful request that overlapped no other, with *)
(* score s and an existing ratee at (avg, count), the ratee's rating_count *)
(* is count + 1, rating_avg is (avg * count + s) / (count + 1), and        *)
(* rating_avg * rating_count equals the sum of the scores received.        *)
C3_Step ==
    LET r == req[1].ratee_id
    IN /\ users[r].rating_count = pre.users[r].rating_count + 1
       /\ users[r].rating_avg = RunningMean(pre.users[r].rating_avg,
                                            pre.users[r].rating_count, req[1].score)

C3_ProductIsSum ==
    LET r == req[1].ratee_id
    IN FMulInt(users[r].rating_avg, users[r].rating_count) = FromInt(ScoreSum(r))

C3_Original ==
    Ok(1) /\ req[1].ratee_id \in DOMAIN pre.users => C3_Step /\ C3_ProductIsSum

(* C3 as amended: rating_count is count + 1 and rating_avg is the double   *)
(* (avg * count + s) / (count + 1); rating_avg * rating_count equals the   *)
(* sum of the scores received while the ratee has at most 6 ratings (from  *)
(* the 7th on the product can differ from the sum by rounding).            *)
C3_RunningAverage ==
    Ok(1) /\ req[1].ratee_id \in DOMAIN pre.users =>
        /\ C3_Step
        /\ users[req[1].ratee_id].rating_count <= 6 => C3_ProductIsSum

(* the third rating of a ratee brought the scores' sum to 10 *)
C3_Witness ==
    /\ Ok(1) /\ req[1].ratee_id \in DOMAIN pre.users
    /\ users[req[1].ratee_id].rating_count = 3
    /\ ScoreSum(req[1].ratee_id) = 10

---------------------------------------------------------------------------
(* C4: once every request has returned, each user u that teaches no        *)
(* session with a malformed learner id has coins = 20 + 10 * (requests     *)
(* that returned 200 on sessions u teaches) - 10 * (requests that returned *)
(* 200 on sessions u learns in), and teaching_sessions and                 *)
(* learning_sessions equal those two numbers: under every interleaving,    *)
(* with no floor at zero.                                                  *)
C4_CoinSettlementExact ==
    (\A p \in Procs : ~InFlight(p)) =>
        \A id \in DOMAIN users :
            (\A s \in DOMAIN sessions :
                sessions[s].teacher_id = id =>
                    oid(sessions[s].learner_id) \/ ~Truthy(sessions[s].learner_id))
            => /\ users[id].coins = InitialCoins + 10 * TeachK(id) - 10 * LearnK(id)
               /\ users[id].teaching_sessions = TeachK(id)
               /\ users[id].learning_sessions = LearnK(id)

(* two overlapping requests on a session of two distinct users returned    *)
(* 200 and the learner's balance is negative                               *)
C4_Witness ==
    \E p \in Procs, q \in Procs :
        /\ p # q /\ Ok(p) /\ Ok(q) /\ overlap[p] /\ overlap[q]
        /\ req[p].session_id = req[q].session_id
        /\ sdoc[p].teacher_id # sdoc[p].learner_id
        /\ users[sdoc[p].learner_id].coins < 0

---------------------------------------------------------------------------
(* C5 as stated: every step of every execution, overlapping requests       *)
(* included, leaves each user's badge set a superset of what it was.       *)
C5_Original ==
    [][\A id \in DOMAIN users : users[id].badges \subseteq users'[id].badges]_vars

(* C5 as amended: a step that removes a badge from a user is the badge     *)
(* write of a request that overlapped another request; a request that      *)
(* overlaps no other never removes a badge.                                *)
C5_BadgesKeptWithoutOverlap ==
    [][\A id \in DOMAIN users :
          ~(users[id].badges \subseteq users'[id].badges) =>
              \E p \in Procs : pc[p] = "set_badges" /\ pc'[p] = "done" /\ overlap[p]]_vars

(* a request that overlapped no other wrote the badges of a teacher who    *)
(* already held one, and added another                                     *)
C5_Witness ==
    \E p \in Procs :
        /\ Ok(p) /\ ~overlap[p] /\ t[p].found
        /\ t[p].badges # {}
        /\ users[t[p].id].badges # t[p].badges
        /\ t[p].badges \subseteq users[t[p].id].badges

---------------------------------------------------------------------------
(* C6: a session is created 'scheduled'; a request that returns 200 leaves *)
(* the session it referenced 'completed'; and no step of any handler takes *)
(* a session out of 'completed'.                                           *)
C6_CompletedIsFinal ==
    [][/\ \A s \in DOMAIN sessions :
             sessions[s].status = "completed" => sessions'[s].status = "completed"
       /\ \A s \in DOMAIN sessions' \ DOMAIN sessions : sessions'[s].status = "scheduled"
       /\ \A p \in Procs :
             pc'[p] = "done" /\ resp'[p] = 200
                 => sessions'[req'[p].session_id].status = "completed"]_vars

(* a second request on a session that was already completed returned 200   *)
C6_Witness ==
    /\ Ok(1) /\ ReferencesSession
    /\ PreSession.status = "completed"
    /\ sessions[req[1].session_id].status = "completed"

---------------------------------------------------------------------------
(* C7: with requests served one at a time, between requests every user's   *)
(* rating_count equals the number of Rating documents whose ratee_id is    *)
(* that user, also after requests that failed after the rating insert and  *)
(* requests whose ratee does not exist.                                    *)
C7_CountMatchesRatings ==
    (\A p \in Procs : ~InFlight(p)) =>
        \A id \in DOMAIN users : users[id].rating_count = CountRatings(id)

(* a request that rated an existing user failed with 400 after its rating  *)
(* was inserted, and an earlier rating names a ratee without a document    *)
C7_Witness ==
    /\ Done(1) /\ resp[1] = 400 /\ ratings # pre.ratings
    /\ req[1].ratee_id \in DOMAIN users
    /\ users[req[1].ratee_id].rating_count = 1
    /\ CountRatings(AbsentId) = 1

---------------------------------------------------------------------------
(* C8: after a successful request (overlapping no other) on a session      *)
(* whose teacher document exists, the teacher's badges are the badges held *)
(* before the request together with exactly the labels whose threshold     *)
(* holds on the teacher's values after the request: "Top Mentor" iff       *)
(* teaching_sessions >= 10, "Skill Streak" iff teaching_sessions +         *)
(* learning_sessions >= 5, "Helpful Teacher" iff rating_avg > 4.5; and no  *)
(* other user's badges changed.                                            *)
C8_BadgesRecomputed ==
    Ok(1) /\ PreSession.teacher_id \in DOMAIN pre.users =>
        LET tid == PreSession.teacher_id
        IN /\ users[tid].badges = pre.users[tid].badges \cup Qualifying(users[tid])
           /\ \A id \in DOMAIN users \ {tid} : users[id].badges = pre.users[id].badges

(* the request that took the teacher to teaching_sessions = 10 added       *)
(* "Top Mentor" to a set that already held "Helpful Teacher"               *)
C8_Witness ==
    /\ Ok(1) /\ PreSession.teacher_id \in DOMAIN pre.users
    /\ users[PreSession.teacher_id].teaching_sessions = 10
    /\ "Top Mentor" \notin pre.users[PreSession.teacher_id].badges
    /\ {"Top Mentor", "Helpful Teacher"} \subseteq users[PreSession.teacher_id].badges
    /\ DOMAIN users # {PreSession.teacher_id}

---------------------------------------------------------------------------
(* C9: a request with a valid score on an existing session whose ratee,    *)
(* teacher and learner ids are well-formed returns 200, leaves the session *)
(* completed and creates no user document.  If the learner has no document *)
(* and the teacher has one, the teacher still gets coins + 10 and          *)
(* teaching_sessions + 1 and the badges are recomputed.  If the ratee has  *)
(* no document, the rating is inserted and no rating_avg or rating_count   *)
(* changes.                                                                *)
C9_WellFormed ==
    /\ req[1].score \in 1..5 /\ ReferencesSession
    /\ oid(req[1].ratee_id) /\ oid(PreSession.teacher_id) /\ oid(PreSession.learner_id)

C9_MissingUserIsSkipped ==
    Done(1) /\ C9_WellFormed =>
        LET tid == PreSession.teacher_id
            lid == PreSession.learner_id
        IN /\ resp[1] = 200
           /\ sessions[req[1].session_id].status = "completed"
           /\ DOMAIN users = DOMAIN pre.users
           /\ lid \notin DOMAIN users /\ tid \in DOMAIN users =>
                 /\ users[tid].coins = pre.users[tid].coins + 10
                 /\ users[tid].teaching_sessions = pre.users[tid].teaching_sessions + 1
                 /\ users[tid].learning_sessions = pre.users[tid].learning_sessions
                 /\ users[tid].badges = pre.users[tid].badges \cup Qualifying(users[tid])
           /\ req[1].ratee_id \notin DOMAIN users =>
                 /\ ratings = pre.ratings (+) SetToBag({NewRating(req[1])})
                 /\ \A id \in DOMAIN users :
                       /\ users[id].rating_avg = pre.users[id].rating_avg
                       /\ users[id].rating_count = pre.users[id].rating_count

(* a request whose learner and ratee have no document returned 200 and     *)
(* paid the existing teacher                                               *)
C9_Witness ==
    /\ Done(1) /\ C9_WellFormed /\ resp[1] = 200
    /\ PreSession.learner_id = AbsentId
    /\ req[1].ratee_id = AbsentId
    /\ PreSession.teacher_id \in DOMAIN users
    /\ users[PreSession.teacher_id].coins = InitialCoins + 10

---------------------------------------------------------------------------
(* C10: when two requests for the same existing ratee have both read the   *)
(* same prior (rating_avg, rating_count), both returned 200 and theirs are *)
(* the only two statistics writes since that read, the ratee's             *)
(* rating_count is prior + 1, rating_avg reflects one of the two scores    *)
(* only, and the ratee has more Rating documents than rating_count says.   *)
C10_SameRead(p, q) ==
    /\ p # q /\ Ok(p) /\ Ok(q)
    /\ req[p].ratee_id = req[q].ratee_id
    /\ u[p].found /\ u[p] = u[q]
    /\ writes[req[p].ratee_id] = u[p].ver + 2

C10_Lost(p, q) ==
    LET r == req[p].ratee_id
    IN /\ users[r].rating_count = u[p].rating_count + 1
       /\ users[r].rating_avg \in
              {RunningMean(u[p].rating_avg, u[p].rating_count, req[p].score),
               RunningMean(u[p].rating_avg, u[p].rating_count, req[q].score)}
       /\ CountRatings(r) > users[r].rating_count

C10_LostUpdate ==
    \A p \in Procs, q \in Procs : C10_SameRead(p, q) => C10_Lost(p, q)

(* the interleaving exists: both requests read the ratee at (0.0, 0), both *)
(* returned 200, two ratings are stored and rating_count is 1              *)
C10_Witness ==
    \E p \in Procs, q \in Procs :
        /\ C10_SameRead(p, q) /\ C10_Lost(p, q)
        /\ u[p].rating_count = 0
        /\ req[p].score # req[q].score
        /\ CountRatings(req[p].ratee_id) = 2
        /\ users[req[p].ratee_id].rating_count = 1

=============================================================================
